---------------------------- MODULE Spec2Model ----------------------------
(***************************************************************************)
(* A model of the fips crate: the 64-bit packed FIPSCode (fips_code.rs),   *)
(* the SettingCategory tag (aspr/mod.rs) and the ASPR digit-string parsers *)
(* (parser.rs).                                                            *)
(*                                                                         *)
(* A u64 is a vector of 64 bits (bit 0 is the least significant), so that  *)
(* shifts, masks and casts lose exactly the bits the machine loses.        *)
(* A string is a sequence of one-character strings.                        *)
(***************************************************************************)
EXTENDS Integers, Sequences, FiniteSets, TLC

VARIABLES
    code,   \* the FIPSCode under operation: None before construction, else Some(u64)
    args,   \* the field values handed to the last FIPSCode::new
    nset,   \* how many set_data calls the code has seen
    ret,    \* the outcome of the last operation
    input,  \* the text handed to the last parser call
    reader, \* the ASPRRecordIterator under operation and what it has yielded
    store   \* ASPR_DATA_PATH behind its RwLock, and the threads that use it

vars == <<code, args, nset, ret, input, reader, store>>

(***************************************************************************)
(* Option<T>                                                               *)
(***************************************************************************)
None == [some |-> FALSE]

Some(x) == [some |-> TRUE, val |-> x]

(***************************************************************************)
(* Bounds of the model                                                     *)
(***************************************************************************)
MaxSetData == 2

(***************************************************************************)
(* 64-bit words                                                            *)
(***************************************************************************)
BitIdx == 0..63

\* `n as u64` for a value of a narrower unsigned type (n < 2^31 here)
ToU64(n) == [i \in BitIdx |-> IF i <= 30 THEN (n \div (2^i)) % 2 ELSE 0]

ZeroU64 == [i \in BitIdx |-> 0]

\* x << k on u64: the bits shifted past bit 63 are lost
Shl(x, k) == [i \in BitIdx |-> IF i >= k THEN x[i - k] ELSE 0]

\* x >> k on u64
Shr(x, k) == [i \in BitIdx |-> IF i + k <= 63 THEN x[i + k] ELSE 0]

BitOr(x, y) == [i \in BitIdx |-> IF x[i] = 1 \/ y[i] = 1 THEN 1 ELSE 0]

BitAnd(x, y) == [i \in BitIdx |-> IF x[i] = 1 /\ y[i] = 1 THEN 1 ELSE 0]

BitNot(x) == [i \in BitIdx |-> 1 - x[i]]

\* the byte of x that starts at bit i, as a number
Octet(x, i) ==
    ((x[i] + 2 * x[i + 1]) + (4 * x[i + 2] + 8 * x[i + 3]))
    + ((16 * x[i + 4] + 32 * x[i + 5]) + (64 * x[i + 6] + 128 * x[i + 7]))

\* the number that bits i..0 of a word denote, a byte at a time (i + 1 is
\* the width of a type: a multiple of 8)
RECURSIVE ValUpTo(_, _)
ValUpTo(x, i) ==
    IF i < 0 THEN 0
    ELSE Octet(x, i - 7) * 2^(i - 7) + ValUpTo(x, i - 8)

\* `x as u8`, `x as u16`, `x as u32`: the low bits are kept, the rest is lost
AsU8(x) == [i \in BitIdx |-> IF i < 8 THEN x[i] ELSE 0]

AsU16(x) == [i \in BitIdx |-> IF i < 16 THEN x[i] ELSE 0]

AsU32(x) == [i \in BitIdx |-> IF i < 32 THEN x[i] ELSE 0]

\* the number a u8, u16 or u32 denotes, read off the word that holds it
Val8(x) == ValUpTo(x, 7)

Val16(x) == ValUpTo(x, 15)

Val32(x) == ValUpTo(x, 31)

\* the comparison of bits i..0 of two words, from the most significant down
\* (bit by bit down to a byte boundary, then byte by byte)
RECURSIVE CmpFrom(_, _, _)
CmpFrom(x, y, i) ==
    IF i < 0 THEN "Equal"
    ELSE IF i % 8 # 7
    THEN (IF x[i] = y[i] THEN CmpFrom(x, y, i - 1)
          ELSE IF x[i] < y[i] THEN "Less" ELSE "Greater")
    ELSE IF Octet(x, i - 7) = Octet(y, i - 7) THEN CmpFrom(x, y, i - 8)
    ELSE IF Octet(x, i - 7) < Octet(y, i - 7) THEN "Less" ELSE "Greater"

\* Ord on i64: bit 63 is the sign; words of the same sign compare as u64
CmpSigned(x, y) ==
    IF x[63] # y[63]
    THEN (IF x[63] = 1 THEN "Less" ELSE "Greater")
    ELSE CmpFrom(x, y, 63)

\* Ord on u64
Cmp(x, y) == CmpFrom(x, y, 63)

(***************************************************************************)
(* lib.rs: masks and offsets                                               *)
(***************************************************************************)
FOUR_BIT_MASK == 15

SIX_BIT_MASK == 63

TEN_BIT_MASK == 1023

FOURTEEN_BIT_MASK == 16383

TWENTY_BIT_MASK == 1048575

STATE_OFFSET == 58

COUNTY_OFFSET == 48

TRACT_OFFSET == 28

CATEGORY_OFFSET == 24

ID_OFFSET == 10

(***************************************************************************)
(* aspr/mod.rs: SettingCategory                                            *)
(***************************************************************************)
SettingCategory ==
    {"Unspecified", "Home", "Workplace", "PublicSchool", "PrivateSchool", "CensusTract"}

\* the discriminants of the #[repr(u8)] enum
Discriminant ==
    [c \in SettingCategory |->
        CASE c = "Unspecified"   -> 0
          [] c = "Home"          -> 1
          [] c = "Workplace"     -> 2
          [] c = "PublicSchool"  -> 3
          [] c = "PrivateSchool" -> 4
          [] c = "CensusTract"   -> 5]

\* SettingCategory::encode
SettingCategory_encode(c) == Discriminant[c]

\* std::mem::transmute::<u8, SettingCategory>: the variant with that discriminant
Transmute(value) == CHOOSE c \in SettingCategory : Discriminant[c] = value

\* SettingCategory::decode
SettingCategory_decode(value) ==
    IF value <= 4 THEN Some(Transmute(value)) ELSE None

(***************************************************************************)
(* states.rs (USState): a state is known by its code                       *)
(***************************************************************************)
\* the state codes the tests of the crate name: AK, DC, MD, TX,
\* VirginIslandsOfTheUS, HawaiianCoast
USStateCodes == {2, 11, 24, 48, 52, 59}

\* USState::valid_code
USState_valid_code(state) == state \in USStateCodes

\* USState::decode
USState_decode(state) == IF USState_valid_code(state) THEN Some(state) ELSE None

(***************************************************************************)
(* fips_code.rs: FIPSCode                                                  *)
(***************************************************************************)
\* the outcome of a call that may fail an assert!
Panicked == [panic |-> TRUE]

Ok(x) == [panic |-> FALSE, val |-> x]

\* FIPSCode::encode_state
encode_state(state) ==
    IF USState_valid_code(state) /\ state <= SIX_BIT_MASK
    THEN Ok(Shl(ToU64(state), STATE_OFFSET))
    ELSE Panicked

encode_county_unchecked(county) == Ok(Shl(ToU64(county), COUNTY_OFFSET))

\* FIPSCode::encode_county
encode_county(county) ==
    IF county <= TEN_BIT_MASK
    THEN Ok(Shl(ToU64(county), COUNTY_OFFSET))
    ELSE Panicked

\* FIPSCode::encode_tract
encode_tract(tract) ==
    IF tract <= TWENTY_BIT_MASK
    THEN Ok(Shl(ToU64(tract), TRACT_OFFSET))
    ELSE Panicked

\* FIPSCode::encode_category
encode_category(setting_category) ==
    IF setting_category <= FOUR_BIT_MASK
    THEN Ok(Shl(ToU64(setting_category), CATEGORY_OFFSET))
    ELSE Panicked

\* FIPSCode::encode_id
encode_id(id) ==
    IF id <= FOURTEEN_BIT_MASK
    THEN Ok(Shl(ToU64(id), ID_OFFSET))
    ELSE Panicked

\* FIPSCode::encode_data
encode_data(data) ==
    IF data <= TEN_BIT_MASK
    THEN Ok(ToU64(data))
    ELSE Panicked

\* FIPSCode::new, on state.encode() and category.encode()
FIPSCode_new(state, county, tract, category, id, data) ==
    LET parts == <<encode_state(state), encode_county(county), encode_tract(tract),
                   encode_category(category), encode_id(id), encode_data(data)>>
    IN  IF \E k \in 1..6 : parts[k].panic
        THEN Panicked
        ELSE LET encoded ==
                     BitOr(parts[1].val, BitOr(parts[2].val, BitOr(parts[3].val,
                     BitOr(parts[4].val, BitOr(parts[5].val, parts[6].val)))))
             IN  \* NonZero::new(encoded).unwrap()
                 IF encoded = ZeroU64 THEN Panicked ELSE Ok(encoded)

\* FIPSCode::state_code
state_code(self) == Val8(AsU8(Shr(self, STATE_OFFSET)))

\* FIPSCode::county_code
county_code(self) ==
    Val16(BitAnd(AsU16(Shr(self, COUNTY_OFFSET)), ToU64(TEN_BIT_MASK)))

\* FIPSCode::census_tract_code
census_tract_code(self) ==
    Val32(BitAnd(AsU32(Shr(self, TRACT_OFFSET)), ToU64(TWENTY_BIT_MASK)))

\* FIPSCode::category_code
category_code(self) ==
    Val8(BitAnd(AsU8(Shr(self, CATEGORY_OFFSET)), ToU64(FOUR_BIT_MASK)))

\* FIPSCode::id
id(self) ==
    Val16(BitAnd(AsU16(Shr(self, ID_OFFSET)), ToU64(FOURTEEN_BIT_MASK)))

\* FIPSCode::data
data(self) == Val16(BitAnd(AsU16(self), ToU64(TEN_BIT_MASK)))

\* Option::unwrap_unchecked.  On None the behaviour is undefined: the build
\* may trap (the debug precondition check), may hand back a value that is
\* no variant (the niche that encodes None), or may have dropped the test and
\* hand back whatever variant the raw byte denotes.
UnwrapUnchecked(opt, ofRaw) ==
    IF opt.some
    THEN {[kind |-> "value", val |-> opt.val]}
    ELSE {[kind |-> "trap"], [kind |-> "invalid"]}
         \cup {[kind |-> "value", val |-> v] : v \in ofRaw}

VariantsOfByte(raw) == {c \in SettingCategory : Discriminant[c] = raw}

StatesOfByte(raw) == {c \in USStateCodes : c = raw}

\* FIPSCode::state: the outcomes of the call
state(self) ==
    UnwrapUnchecked(USState_decode(state_code(self)), StatesOfByte(state_code(self)))

\* FIPSCode::category: the outcomes of the call
category(self) ==
    UnwrapUnchecked(SettingCategory_decode(category_code(self)),
                    VariantsOfByte(category_code(self)))

set_data_mask_swapped(self, d) ==
    IF d <= TEN_BIT_MASK
    THEN Ok(BitOr(BitAnd(self, ToU64(TEN_BIT_MASK)),
                  BitAnd(ToU64(d), ToU64(TEN_BIT_MASK))))
    ELSE Panicked

set_data_no_clear(self, d) ==
    IF d <= TEN_BIT_MASK
    THEN Ok(BitOr(self, BitAnd(ToU64(d), ToU64(TEN_BIT_MASK))))
    ELSE Panicked

\* FIPSCode::set_data: the new packed value, or the failed assert
set_data(self, d) ==
    IF d <= TEN_BIT_MASK
    THEN LET inverse_mask == BitNot(ToU64(TEN_BIT_MASK))
         IN  Ok(BitOr(BitAnd(self, inverse_mask),
                      BitAnd(ToU64(d), ToU64(TEN_BIT_MASK))))
    ELSE Panicked

compare_non_data_unmasked(self, other) == Cmp(self, other)

\* FIPSCode::compare_non_data
compare_non_data(self, other) ==
    LET inverse_mask == BitNot(ToU64(TEN_BIT_MASK))
    IN  Cmp(BitAnd(self, inverse_mask), BitAnd(other, inverse_mask))

FIPSCode_cmp_signed(self, other) == CmpSigned(self, other)

\* #[derive(Ord)] on FIPSCode(NonZero<u64>)
FIPSCode_cmp(self, other) == Cmp(self, other)

\* the six fields of a packed value, as the numeric accessors read them
Fields(self) ==
    <<state_code(self), county_code(self), census_tract_code(self),
      category_code(self), id(self), data(self)>>

\* ExpandedFIPSCode::from_fips_code: the outcomes of the call
from_fips_code(fips_code) ==
    { IF s.kind = "value" /\ c.kind = "value"
      THEN [kind |-> "value",
            val  |-> [state |-> s.val, county |-> county_code(fips_code),
                      tract |-> census_tract_code(fips_code), category |-> c.val,
                      id |-> id(fips_code), data |-> data(fips_code)]]
      ELSE IF s.kind = "trap" \/ c.kind = "trap" THEN [kind |-> "trap"]
      ELSE [kind |-> "invalid"]
      : s \in state(fips_code), c \in category(fips_code) }

\* ExpandedFIPSCode::to_fips_code
to_fips_code(e) ==
    FIPSCode_new(e.state, e.county, e.tract, SettingCategory_encode(e.category),
                 e.id, e.data)

(***************************************************************************)
(* Text: a string is a sequence of characters                              *)
(***************************************************************************)
DigitChars == <<"0", "1", "2", "3", "4", "5", "6", "7", "8", "9">>

\* char::is_ascii_digit
IsDigit(c) == \E k \in 1..10 : DigitChars[k] = c

\* the value of a decimal digit
DigitValue(c) == (CHOOSE k \in 1..10 : DigitChars[k] = c) - 1

\* the least and the greatest of a non-empty set of positions
Lowest(positions) == CHOOSE k \in positions : \A j \in positions : k <= j

Highest(positions) == CHOOSE k \in positions : \A j \in positions : j <= k

\* str::parse on a string of decimal digits
RECURSIVE DecimalValue(_)
DecimalValue(digits) ==
    IF digits = <<>> THEN 0
    ELSE 10 * DecimalValue(SubSeq(digits, 1, Len(digits) - 1))
         + DigitValue(digits[Len(digits)])

\* how many decimal digits lead the first n characters of s
LeadingDigits(s, n) ==
    LET last  == IF n < Len(s) THEN n ELSE Len(s)
        stops == {k \in 1..last : ~IsDigit(s[k])}
    IN  IF stops = {} THEN last ELSE Lowest(stops) - 1

\* a digit run without its leading zeros
Significant(run) ==
    LET kept == {k \in 1..Len(run) : run[k] # "0"}
    IN  IF kept = {} THEN <<>> ELSE SubSeq(run, Lowest(kept), Len(run))

\* str::starts_with
StartsWith(s, prefix) ==
    Len(s) >= Len(prefix) /\ SubSeq(s, 1, Len(prefix)) = prefix

\* `value as u16`, `value as u32`
CastU16(n) == Val16(AsU16(ToU64(n)))

CastU32(n) == Val32(AsU32(ToU64(n)))

(***************************************************************************)
(* fips::parser: FIPSParseResult, FIPSParserError and the primitive the    *)
(* field parsers instantiate                                               *)
(***************************************************************************)
\* Ok((rest, value))
ParseOk(rest, value) == [ok |-> TRUE, rest |-> rest, value |-> value]

\* Err((input, error))
ParseErr(rest, error) == [ok |-> FALSE, rest |-> rest, err |-> error]

InvalidLength(expected, found) ==
    [kind |-> "InvalidLength", expected |-> expected, found |-> found]

InvalidDigit(found) == [kind |-> "InvalidDigit", found |-> found]

ValueExceedsCapacity(value, capacity) ==
    [kind |-> "ValueExceedsCapacity", value |-> value, capacity |-> capacity]

\* parse_decimal_digits_to_bits: exactly digit_count leading digits, whose
\* value must not exceed 2^bit_width - 1
parse_decimal_digits_to_bits(digit_count, bit_width, s) ==
    LET found == LeadingDigits(s, digit_count)
    IN  IF found < digit_count
        THEN ParseErr(s, InvalidLength(digit_count, found))
        ELSE LET value    == DecimalValue(SubSeq(s, 1, digit_count))
                 capacity == 2^bit_width - 1
             IN  IF value > capacity
                 THEN ParseErr(s, ValueExceedsCapacity(value, capacity))
                 ELSE ParseOk(SubSeq(s, digit_count + 1, Len(s)), value)

\* Result::map(|(rest, value)| (rest, value as u16))
MapU16(r) == IF r.ok THEN ParseOk(r.rest, CastU16(r.value)) ELSE r

\* Result::map(|(rest, value)| (rest, value as u32))
MapU32(r) == IF r.ok THEN ParseOk(r.rest, CastU32(r.value)) ELSE r

(***************************************************************************)
(* aspr parser.rs: the fixed-width field parsers                           *)
(***************************************************************************)
parse_county_code_two_digits(s) == MapU16(parse_decimal_digits_to_bits(2, 10, s))

\* parse_county_code
parse_county_code(s) == MapU16(parse_decimal_digits_to_bits(3, 10, s))

parse_tract_code_seven_digits(s) ==
    MapU32(parse_decimal_digits_to_bits(7, 24, s))

\* parse_tract_code
parse_tract_code(s) == MapU32(parse_decimal_digits_to_bits(6, 20, s))

parse_home_id_five_digits(s) ==
    MapU16(parse_decimal_digits_to_bits(5, 14, s))

\* parse_home_id
parse_home_id(s) == MapU16(parse_decimal_digits_to_bits(4, 14, s))

XPRVX == <<"x", "p", "r", "v", "x">>

StripMarker_first_letter(s) ==
    IF StartsWith(s, <<"x">>) THEN SubSeq(s, 2, Len(s)) ELSE s

\* str::strip_prefix("xprvx").unwrap_or(input)
StripMarker(s) ==
    IF StartsWith(s, XPRVX) THEN SubSeq(s, Len(XPRVX) + 1, Len(s)) ELSE s

\* parse_private_school_id
parse_private_school_id(s) ==
    MapU16(parse_decimal_digits_to_bits(4, 11, StripMarker(s)))

parse_public_school_id_nine_bits(s) ==
    MapU16(parse_decimal_digits_to_bits(3, 9, s))

\* parse_public_school_id
parse_public_school_id(s) == MapU16(parse_decimal_digits_to_bits(3, 10, s))

parse_workplace_id_fifteen_bits(s) ==
    MapU16(parse_decimal_digits_to_bits(5, 15, s))

\* parse_workplace_id
parse_workplace_id(s) == MapU16(parse_decimal_digits_to_bits(5, 14, s))

(***************************************************************************)
(* fips::parser: the state-code parser                                     *)
(***************************************************************************)
\* parse_state_code: the two leading digits, looked up in the state table;
\* a prefix the table does not hold is reported as exceeding the six bits of
\* the state field
parse_state_code(s) ==
    LET r == parse_decimal_digits_to_bits(2, 6, s)
    IN  IF ~r.ok THEN r
        ELSE IF USState_valid_code(r.value) THEN r
        ELSE ParseErr(s, ValueExceedsCapacity(r.value, SIX_BIT_MASK))

(***************************************************************************)
(* aspr parser.rs: the composite parsers                                   *)
(***************************************************************************)
\* panic!("FIPS code is invalid. This is a bug in the ASPR parser.")
ParserBug == [ok |-> FALSE, rest |-> <<>>, err |-> [kind |-> "panic"]]

\* FIPSCode::new(..., 0) and the match on its result
Assemble(rest, st, county, tract, variant, ident) ==
    LET fips_code ==
            FIPSCode_new(st, county, tract, SettingCategory_encode(variant),
                         ident, 0)
    IN  IF fips_code.panic THEN ParserBug ELSE ParseOk(rest, fips_code.val)

parse_fips_home_id_whole_input(s) ==
    LET r1 == parse_state_code(s)
    IN  IF ~r1.ok THEN r1 ELSE
        LET r2 == parse_county_code(r1.rest)
        IN  IF ~r2.ok THEN ParseErr(s, r2.err) ELSE
            LET r3 == parse_tract_code(r2.rest)
            IN  IF ~r3.ok THEN ParseErr(s, r3.err) ELSE
                LET r4 == parse_home_id(r3.rest)
                IN  IF ~r4.ok THEN ParseErr(s, r4.err) ELSE
                    Assemble(r4.rest, r1.value, r2.value, r3.value, "Home",
                             r4.value)

\* parse_fips_home_id
parse_fips_home_id(s) ==
    LET r1 == parse_state_code(s)
    IN  IF ~r1.ok THEN r1 ELSE
        LET r2 == parse_county_code(r1.rest)
        IN  IF ~r2.ok THEN r2 ELSE
            LET r3 == parse_tract_code(r2.rest)
            IN  IF ~r3.ok THEN r3 ELSE
                LET r4 == parse_home_id(r3.rest)
                IN  IF ~r4.ok THEN r4 ELSE
                    Assemble(r4.rest, r1.value, r2.value, r3.value, "Home",
                             r4.value)

parse_fips_school_id_whole_marker(s) ==
    LET r1 == parse_state_code(s)
    IN  IF ~r1.ok THEN r1 ELSE
        LET r2 == parse_county_code(r1.rest)
        IN  IF ~r2.ok THEN r2 ELSE
            IF StartsWith(r2.rest, XPRVX)
            THEN LET r3 == parse_private_school_id(r2.rest)
                 IN  IF ~r3.ok THEN r3 ELSE
                     Assemble(r3.rest, r1.value, r2.value, 0, "PrivateSchool",
                              r3.value)
            ELSE LET r3 == parse_tract_code(r2.rest)
                 IN  IF ~r3.ok THEN r3 ELSE
                     LET r4 == parse_public_school_id(r3.rest)
                     IN  IF ~r4.ok THEN r4 ELSE
                         Assemble(r4.rest, r1.value, r2.value, r3.value,
                                  "PublicSchool", r4.value)

parse_fips_school_id_one_category(s) ==
    LET r1 == parse_state_code(s)
    IN  IF ~r1.ok THEN r1 ELSE
        LET r2 == parse_county_code(r1.rest)
        IN  IF ~r2.ok THEN r2 ELSE
            IF StartsWith(r2.rest, <<"x">>)
            THEN LET r3 == parse_private_school_id(r2.rest)
                 IN  IF ~r3.ok THEN r3 ELSE
                     Assemble(r3.rest, r1.value, r2.value, 0, "PublicSchool",
                              r3.value)
            ELSE LET r3 == parse_tract_code(r2.rest)
                 IN  IF ~r3.ok THEN r3 ELSE
                     LET r4 == parse_public_school_id(r3.rest)
                     IN  IF ~r4.ok THEN r4 ELSE
                         Assemble(r4.rest, r1.value, r2.value, r3.value,
                                  "PublicSchool", r4.value)

\* parse_fips_school_id
parse_fips_school_id(s) ==
    LET r1 == parse_state_code(s)
    IN  IF ~r1.ok THEN r1 ELSE
        LET r2 == parse_county_code(r1.rest)
        IN  IF ~r2.ok THEN r2 ELSE
            IF StartsWith(r2.rest, <<"x">>)
            THEN LET r3 == parse_private_school_id(r2.rest)
                 IN  IF ~r3.ok THEN r3 ELSE
                     Assemble(r3.rest, r1.value, r2.value, 0, "PrivateSchool",
                              r3.value)
            ELSE LET r3 == parse_tract_code(r2.rest)
                 IN  IF ~r3.ok THEN r3 ELSE
                     LET r4 == parse_public_school_id(r3.rest)
                     IN  IF ~r4.ok THEN r4 ELSE
                         Assemble(r4.rest, r1.value, r2.value, r3.value,
                                  "PublicSchool", r4.value)

parse_fips_workplace_id_as_home(s) ==
    LET r1 == parse_state_code(s)
    IN  IF ~r1.ok THEN r1 ELSE
        LET r2 == parse_county_code(r1.rest)
        IN  IF ~r2.ok THEN r2 ELSE
            LET r3 == parse_tract_code(r2.rest)
            IN  IF ~r3.ok THEN r3 ELSE
                LET r4 == parse_workplace_id(r3.rest)
                IN  IF ~r4.ok THEN r4 ELSE
                    Assemble(r4.rest, r1.value, r2.value, r3.value, "Home",
                             r4.value)

\* parse_fips_workplace_id
parse_fips_workplace_id(s) ==
    LET r1 == parse_state_code(s)
    IN  IF ~r1.ok THEN r1 ELSE
        LET r2 == parse_county_code(r1.rest)
        IN  IF ~r2.ok THEN r2 ELSE
            LET r3 == parse_tract_code(r2.rest)
            IN  IF ~r3.ok THEN r3 ELSE
                LET r4 == parse_workplace_id(r3.rest)
                IN  IF ~r4.ok THEN r4 ELSE
                    Assemble(r4.rest, r1.value, r2.value, r3.value,
                             "Workplace", r4.value)

(***************************************************************************)
(* aspr parser.rs: parse_integer, and the u64 arithmetic of                *)
(* str::parse::<u64> it relies on                                          *)
(***************************************************************************)
\* u64::MAX
MaxU64 == [i \in BitIdx |-> 1]

\* the sums of the bytes 0..7 of x and y
ByteSums(x, y) ==
    <<Octet(x, 0) + Octet(y, 0), Octet(x, 8) + Octet(y, 8),
      Octet(x, 16) + Octet(y, 16), Octet(x, 24) + Octet(y, 24),
      Octet(x, 32) + Octet(y, 32), Octet(x, 40) + Octet(y, 40),
      Octet(x, 48) + Octet(y, 48), Octet(x, 56) + Octet(y, 56)>>

\* the carry into byte j of a sum: a byte below it overflows, and every byte
\* between the two passes a carry on
CarryInto(sums, j) ==
    IF \E b \in 0..(j - 1) :
          /\ sums[b + 1] >= 256
          /\ \A k \in (b + 1)..(j - 1) : sums[k + 1] = 255
    THEN 1 ELSE 0

\* the eight bits of byte j of a sum, the least significant first
SumByte(sums, j) ==
    LET t == sums[j + 1] + CarryInto(sums, j)
    IN  <<t % 2, (t \div 2) % 2, (t \div 4) % 2, (t \div 8) % 2,
          (t \div 16) % 2, (t \div 32) % 2, (t \div 64) % 2, (t \div 128) % 2>>

\* bits 0..63 of the sum, followed by the carry out of bit 63
SumBits(sums) ==
    ((SumByte(sums, 0) \o SumByte(sums, 1))
     \o (SumByte(sums, 2) \o SumByte(sums, 3)))
    \o ((SumByte(sums, 4) \o SumByte(sums, 5))
        \o (SumByte(sums, 6) \o SumByte(sums, 7) \o <<CarryInto(sums, 8)>>))

\* bits 0..63 of x + y, followed by the carry out of bit 63
AddBits(x, y) == SumBits(ByteSums(x, y))

checked_add_wrapping(x, y) ==
    LET bits == AddBits(x, y)
    IN  Some([i \in BitIdx |-> bits[i + 1]])

\* u64::checked_add
checked_add(x, y) ==
    LET bits == AddBits(x, y)
    IN  IF bits[65] = 1 THEN None ELSE Some([i \in BitIdx |-> bits[i + 1]])

\* u64::checked_mul(10): 10 * x = 8 * x + 2 * x
checked_mul_10(x) ==
    IF x[63] = 1 \/ x[62] = 1 \/ x[61] = 1 THEN None
    ELSE checked_add(Shl(x, 3), Shl(x, 1))

\* Err(ParseIntError { kind })
IntErr(kind) == [ok |-> FALSE, kind |-> kind]

\* Ok(result)
IntOk(result) == [ok |-> TRUE, value |-> result]

\* one turn of the digit loop of u64::from_str_radix(src, 10):
\* result * 10 + digit, checked
FromStrDigit(result, c) ==
    IF ~IsDigit(c) THEN IntErr("InvalidDigit")
    ELSE LET m == checked_mul_10(result)
         IN  IF ~m.some THEN IntErr("PosOverflow")
             ELSE LET a == checked_add(m.val, ToU64(DigitValue(c)))
                  IN  IF ~a.some THEN IntErr("PosOverflow") ELSE IntOk(a.val)

\* the digit loop: the turns are taken in the order of the text, the first
\* half of it before the second, and the loop returns at the first turn
\* that fails
RECURSIVE FromStrDigits(_, _)
FromStrDigits(s, result) ==
    IF s = <<>> \/ ~result.ok THEN result
    ELSE IF Len(s) = 1 THEN FromStrDigit(result.value, s[1])
    ELSE FromStrDigits(SubSeq(s, Len(s) \div 2 + 1, Len(s)),
                       FromStrDigits(SubSeq(s, 1, Len(s) \div 2), result))

\* str::parse::<u64>
parse_u64(s) ==
    IF s = <<>> THEN IntErr("Empty")
    ELSE IF s = <<"+">> \/ s = <<"-">> THEN IntErr("InvalidDigit")
    ELSE FromStrDigits(IF Head(s) = "+" THEN Tail(s) ELSE s, IntOk(ZeroU64))

IsLetter(c) ==
    c \in {"a", "b", "c", "d", "e", "f", "g", "h", "i", "j", "k", "l", "m",
           "n", "o", "p", "q", "r", "s", "t", "u", "v", "w", "x", "y", "z"}

FirstLetter(s) ==
    LET found == {k \in 1..Len(s) : IsLetter(s[k])}
    IN  IF found = {} THEN None ELSE Some(Lowest(found) - 1)

\* input.find(|c: char| !c.is_ascii_digit()): the offset of the first
\* character that is not a digit
FirstNonDigit(s) ==
    LET found == {k \in 1..Len(s) : ~IsDigit(s[k])}
    IN  IF found = {} THEN None ELSE Some(Lowest(found) - 1)

\* the match on the result of input[..digit_end].parse::<u64>()
ParsedInteger(s, digit_end) ==
    LET r == parse_u64(SubSeq(s, 1, digit_end))
    IN  IF r.ok THEN ParseOk(SubSeq(s, digit_end + 1, Len(s)), r.value)
        ELSE CASE r.kind = "Empty" -> ParseErr(s, InvalidLength(1, 0))
               [] r.kind = "InvalidDigit" -> ParseErr(s, InvalidDigit(Head(s)))
               [] OTHER -> ParseErr(s, ValueExceedsCapacity(MaxU64, MaxU64))

parse_integer_skips_terminator(s) ==
    LET found     == FirstNonDigit(s)
        digit_end == IF found.some THEN found.val ELSE Len(s)
        r         == ParsedInteger(s, digit_end)
    IN  IF digit_end = 0 THEN ParseErr(s, InvalidLength(1, 0))
        ELSE IF r.ok THEN ParseOk(SubSeq(s, digit_end + 2, Len(s)), r.value)
        ELSE r

parse_integer_off_by_one(s) ==
    LET found     == FirstNonDigit(s)
        digit_end == IF found.some THEN found.val + 1 ELSE Len(s)
    IN  IF digit_end = 0 THEN ParseErr(s, InvalidLength(1, 0))
        ELSE ParsedInteger(s, digit_end)

\* parse_integer
parse_integer(s) ==
    LET found     == FirstNonDigit(s)
        digit_end == IF found.some THEN found.val ELSE Len(s)
    IN  IF digit_end = 0 THEN ParseErr(s, InvalidLength(1, 0))
        ELSE ParsedInteger(s, digit_end)

(***************************************************************************)
(* aspr/mod.rs and aspr/errors.rs: ASPRPersonRecord, ASPRError             *)
(***************************************************************************)
\* ASPRPersonRecord { age, home_id, school_id, work_id }
ASPRPersonRecord(age, home_id, school_id, work_id) ==
    [age |-> age, home_id |-> home_id, school_id |-> school_id,
     work_id |-> work_id]

\* ASPRError::Io
Io == [kind |-> "Io"]

\* ASPRError::EmptyFile(path)
EmptyFile(path) == [kind |-> "EmptyFile", path |-> path]

(***************************************************************************)
(* aspr/archive.rs: ASPRRecordIterator.  A file is absent or a sequence of *)
(* lines; a line is Ok(text), or LineError when reading it fails.          *)
(***************************************************************************)
\* a file std::fs::File::open cannot open
Missing == [exists |-> FALSE]

\* a file that opens on these lines
FileOf(lines) == [exists |-> TRUE, lines |-> lines]

\* Some(Ok(text)) of std::io::Lines::next
Line(text) == [ok |-> TRUE, text |-> text]

\* Some(Err(_)) of std::io::Lines::next
LineError == [ok |-> FALSE, text |-> <<>>]

\* the offset of the first ',' of a text
FirstComma(s) ==
    LET found == {k \in 1..Len(s) : s[k] = ","}
    IN  IF found = {} THEN None ELSE Some(Lowest(found) - 1)

\* line.split(','): the pieces between the commas, one piece for a text
\* without a comma
RECURSIVE Split(_)
Split(s) ==
    LET found == FirstComma(s)
    IN  IF ~found.some THEN <<s>>
        ELSE <<SubSeq(s, 1, found.val)>>
             \o Split(SubSeq(s, found.val + 2, Len(s)))

IsWhitespace(c) == c = " "

\* str::trim
Trim(s) ==
    LET kept == {k \in 1..Len(s) : ~IsWhitespace(s[k])}
    IN  IF kept = {} THEN <<>> ELSE SubSeq(s, Lowest(kept), Highest(kept))

\* str::parse::<u8>
parse_u8(s) ==
    LET digits == IF s # <<>> /\ Head(s) = "+" THEN Tail(s) ELSE s
    IN  IF s = <<>> THEN IntErr("Empty")
        ELSE IF digits = <<>> \/ \E k \in 1..Len(digits) : ~IsDigit(digits[k])
        THEN IntErr("InvalidDigit")
        ELSE IF Len(Significant(digits)) > 3 \/ DecimalValue(Significant(digits)) > 255
        THEN IntErr("PosOverflow")
        ELSE [ok |-> TRUE, value |-> DecimalValue(Significant(digits))]

\* the outcomes of Iterator::next: Some(record), None, or the panic of an
\* unwrap
Yield(record) == [kind |-> "Some", record |-> record]

EndOfIteration == [kind |-> "None"]

Unwound == [kind |-> "panic"]

\* parse_fips_*_id(text).ok().map(|(_, id)| id)
OkId(r) == IF r.ok THEN Some(r.value) ELSE None

\* part_iter.next()?.parse::<u8>().unwrap()
row_age(parts) ==
    LET age == parse_u8(parts[1])
    IN  IF age.ok THEN Yield(age.value) ELSE Unwound

record_of_parts_shared_failure(parts) ==
    LET age == row_age(parts)
    IN  IF age.kind # "Some" THEN age
        ELSE IF Len(parts) < 4 THEN EndOfIteration
        ELSE LET home_id   == parse_fips_home_id(Trim(parts[2]))
                 school_id == parse_fips_school_id(Trim(parts[3]))
                 work_id   == parse_fips_workplace_id(Trim(parts[4]))
             IN  IF ParserBug \in {home_id, school_id, work_id} THEN Unwound
                 ELSE IF ~(home_id.ok /\ school_id.ok /\ work_id.ok)
                 THEN Yield(ASPRPersonRecord(age.record, None, None, None))
                 ELSE Yield(ASPRPersonRecord(age.record, OkId(home_id),
                                             OkId(school_id), OkId(work_id)))

\* Some(ASPRPersonRecord{..}) once the last column is parsed
row_after_work(age, home_id, school_id, work_id) ==
    IF work_id = ParserBug THEN Unwound
    ELSE Yield(ASPRPersonRecord(age.record, OkId(home_id), OkId(school_id),
                                OkId(work_id)))

\* part_iter.next()?.trim() and parse_fips_workplace_id
row_after_school(parts, age, home_id, school_id) ==
    IF school_id = ParserBug THEN Unwound
    ELSE IF Len(parts) < 4 THEN EndOfIteration
    ELSE row_after_work(age, home_id, school_id,
                        parse_fips_workplace_id(Trim(parts[4])))

\* part_iter.next()?.trim() and parse_fips_school_id
row_after_home(parts, age, home_id) ==
    IF home_id = ParserBug THEN Unwound
    ELSE IF Len(parts) < 3 THEN EndOfIteration
    ELSE row_after_school(parts, age, home_id,
                          parse_fips_school_id(Trim(parts[3])))

\* part_iter.next()?.trim() and parse_fips_home_id
row_after_age(parts, age) ==
    IF age.kind # "Some" THEN age
    ELSE IF Len(parts) < 2 THEN EndOfIteration
    ELSE row_after_home(parts, age, parse_fips_home_id(Trim(parts[2])))

\* the body of ASPRRecordIterator::next after the line is read
record_of_parts(parts) == row_after_age(parts, row_age(parts))

\* ASPRRecordIterator::next on the lines still unread: the outcome, and the
\* lines left
ASPRRecordIterator_next(lines) ==
    IF lines = <<>> THEN [outcome |-> EndOfIteration, lines |-> lines]
    ELSE IF ~Head(lines).ok
    THEN [outcome |-> EndOfIteration, lines |-> Tail(lines)]
    ELSE [outcome |-> record_of_parts(Split(Head(lines).text)),
          lines |-> Tail(lines)]

from_path_keeps_header(path, file) ==
    IF ~file.exists THEN [ok |-> FALSE, err |-> Io]
    ELSE IF file.lines = <<>> THEN [ok |-> FALSE, err |-> EmptyFile(path)]
    ELSE [ok |-> TRUE, line_iter |-> file.lines]

from_path_empty_is_io(path, file) ==
    IF ~file.exists \/ file.lines = <<>> THEN [ok |-> FALSE, err |-> Io]
    ELSE [ok |-> TRUE, line_iter |-> Tail(file.lines)]

\* ASPRRecordIterator::from_path
from_path(path, file) ==
    IF ~file.exists THEN [ok |-> FALSE, err |-> Io]
    ELSE IF file.lines = <<>> THEN [ok |-> FALSE, err |-> EmptyFile(path)]
    ELSE [ok |-> TRUE, line_iter |-> Tail(file.lines)]

\* one call of next on the iterator from_file_iterator returns: files are
\* the <<path, file>> pairs not yet opened, front the line_iter of the file
\* being read
RECURSIVE FlatMap_next(_, _)
\* what the iterator of the file being read returned
FlatMap_front(files, r) ==
    IF r.outcome = EndOfIteration THEN FlatMap_next(files, None)
    ELSE [outcome |-> r.outcome, files |-> files, front |-> Some(r.lines)]

\* filter_map(|path| from_path(path).ok())
FilterMap_ok(opened) == IF opened.ok THEN Some(opened.line_iter) ELSE None

FlatMap_next(files, front) ==
    IF front.some
    THEN FlatMap_front(files, ASPRRecordIterator_next(front.val))
    ELSE IF files = <<>>
    THEN [outcome |-> EndOfIteration, files |-> files, front |-> None]
    ELSE FlatMap_next(Tail(files),
                      FilterMap_ok(from_path(Head(files)[1], Head(files)[2])))

\* no iterator yet
NoReader == [op |-> "init"]

(***************************************************************************)
(* aspr/archive.rs: ASPR_DATA_PATH behind its RwLock.  A path is stored in *)
(* two parts, written and read one after the other.                        *)
(***************************************************************************)
Threads == {1, 2, 3}

\* DEFAULT_ASPR_DATA_PATH
DEFAULT_ASPR_DATA_PATH == "../CDC/data/ASPR_Synthetic_Population"

\* the paths the threads set
NewPaths == {"/data/a", "/data/b"}

\* PathBuf::from(text): the two parts of the buffer hold the same path
PathBuf(text) == <<text, text>>

\* RwLock::write returns when no guard is held
RwLock_write_ready(lock) == ~lock.writer /\ lock.readers = {}

RwLock_read_ready_unguarded(lock) == TRUE

\* RwLock::read returns when no write guard is held
RwLock_read_ready(lock) == ~lock.writer

\* Lazy::new(|| RwLock::new(PathBuf::from(DEFAULT_ASPR_DATA_PATH))), no
\* thread in a call; committed is the path of the last set that returned
InitialStore ==
    [path      |-> PathBuf(DEFAULT_ASPR_DATA_PATH),
     lock      |-> [writer |-> FALSE, readers |-> {}],
     pc        |-> [t \in Threads |-> "idle"],
     arg       |-> [t \in Threads |-> PathBuf(DEFAULT_ASPR_DATA_PATH)],
     copy      |-> [t \in Threads |-> PathBuf(DEFAULT_ASPR_DATA_PATH)],
     calls     |-> [t \in Threads |-> 0],
     committed |-> DEFAULT_ASPR_DATA_PATH,
     seen      |-> [t \in Threads |-> DEFAULT_ASPR_DATA_PATH],
     got       |-> [t \in Threads |-> None]]


(***************************************************************************)
(* The values the operations are called with.  state and category are the  *)
(* u8 that USState::encode and SettingCategory::encode hand to             *)
(* encode_state and encode_category; every set holds the largest value the *)
(* field admits and the first one it rejects.                              *)
(***************************************************************************)
StateInputs == {0, 2, 59, 64}

CountyInputs == {0, 1023, 1024}

TractInputs == {0, 1048575, 1048576}

CategoryInputs == {0, 4, 5, 15, 16}

IdInputs == {0, 16383, 16384}

DataInputs == {0, 1023, 1024}

SetDataInputs == {0, 511, 1023, 1024}

\* the second operand of a comparison: a validly constructed code
CmpOperands ==
    {<<s, c, t, k, i, d>> :
        s \in {2, 59}, c \in {0, 1023}, t \in {0, 1048575},
        k \in {0, 5}, i \in {0, 16383}, d \in {0, 1023}}

NoArgs == <<>>

NoInput == <<>>

(***************************************************************************)
(* The life of one FIPSCode: constructed once, then read, compared and     *)
(* touched only by set_data.                                               *)
(***************************************************************************)
Init ==
    /\ code = None
    /\ args = NoArgs
    /\ nset = 0
    /\ ret = [op |-> "init"]
    /\ input = NoInput
    /\ reader = NoReader
    /\ store = InitialStore

\* the state after FIPSCode::new(a) returned or panicked
Constructed(a) ==
    LET r == FIPSCode_new(a[1], a[2], a[3], a[4], a[5], a[6])
    IN  /\ args' = a
        /\ code' = IF r.panic THEN None ELSE Some(r.val)
        /\ ret' = [op |-> "new", outcome |-> IF r.panic THEN "panic" ELSE "ok"]
        /\ UNCHANGED <<nset, input, reader, store>>

\* FIPSCode::new
New ==
    /\ ret.op = "init"
    /\ \E s \in StateInputs, c \in CountyInputs, t \in TractInputs,
          k \in CategoryInputs, i \in IdInputs, d \in DataInputs :
            Constructed(<<s, c, t, k, i, d>>)

\* FIPSCode::with_state
WithState ==
    /\ ret.op = "init"
    /\ \E s \in StateInputs :
            Constructed(<<s, 0, 0, SettingCategory_encode("Unspecified"), 0, 0>>)

\* FIPSCode::with_county
WithCounty ==
    /\ ret.op = "init"
    /\ \E s \in StateInputs, c \in CountyInputs :
            Constructed(<<s, c, 0, SettingCategory_encode("Unspecified"), 0, 0>>)

\* FIPSCode::with_tract
WithTract ==
    /\ ret.op = "init"
    /\ \E s \in StateInputs, c \in CountyInputs, t \in TractInputs :
            Constructed(<<s, c, t, SettingCategory_encode("Unspecified"), 0, 0>>)

\* FIPSCode::with_category
WithCategory ==
    /\ ret.op = "init"
    /\ \E s \in StateInputs, c \in CountyInputs, t \in TractInputs,
          k \in CategoryInputs :
            Constructed(<<s, c, t, k, 0, 0>>)

\* A code is live once constructed.  The reads below leave the code as it
\* is, so a run ends with the first of them.
Live == code.some /\ ret.op \in {"new", "set_data"}

\* FIPSCode::set_data
SetData ==
    /\ Live
    /\ nset < MaxSetData
    /\ \E d \in SetDataInputs :
        LET r == set_data(code.val, d)
        IN  /\ code' = IF r.panic THEN code ELSE Some(r.val)
            /\ ret' = [op |-> "set_data", outcome |-> IF r.panic THEN "panic" ELSE "ok",
                       value |-> d, before |-> code.val]
    /\ nset' = nset + 1
    /\ UNCHANGED <<args, input, reader, store>>

\* FIPSCode::state
GetState ==
    /\ Live
    /\ \E r \in state(code.val) : ret' = [op |-> "state", outcome |-> r]
    /\ UNCHANGED <<code, args, nset, input, reader, store>>

\* FIPSCode::category
GetCategory ==
    /\ Live
    /\ \E r \in category(code.val) : ret' = [op |-> "category", outcome |-> r]
    /\ UNCHANGED <<code, args, nset, input, reader, store>>

\* ExpandedFIPSCode::from_fips_code, then to_fips_code on what it returned
Expand ==
    /\ Live
    /\ \E e \in from_fips_code(code.val) :
        ret' = [op |-> "expand", outcome |-> e,
                repacked |-> IF e.kind = "value" THEN to_fips_code(e.val) ELSE Panicked]
    /\ UNCHANGED <<code, args, nset, input, reader, store>>

\* the codes FIPSCode::new builds from CmpOperands
CmpOperandCodes ==
    {FIPSCode_new(b[1], b[2], b[3], b[4], b[5], b[6]).val : b \in CmpOperands}

\* self.cmp(&other) and self.compare_non_data(other), other a code built by new
Compare ==
    /\ Live
    /\ \E other \in CmpOperandCodes :
        ret' = [op |-> "compare", other |-> other,
                cmp |-> FIPSCode_cmp(code.val, other),
                non_data |-> compare_non_data(code.val, other)]
    /\ UNCHANGED <<code, args, nset, input, reader, store>>

\* SettingCategory::decode on any u8
Decode ==
    /\ ret.op = "init"
    /\ \E v \in 0..255 : ret' = [op |-> "decode", value |-> v,
                                 outcome |-> SettingCategory_decode(v)]
    /\ UNCHANGED <<code, args, nset, input, reader, store>>

Next ==
    \/ New
    \/ WithState
    \/ WithCounty
    \/ WithTract
    \/ WithCategory
    \/ SetData
    \/ GetState
    \/ GetCategory
    \/ Expand
    \/ Compare
    \/ Decode

Spec == Init /\ [][Next]_vars

(***************************************************************************)
(* Properties of the packed code                                           *)
(***************************************************************************)
\* the discriminants of the SettingCategory variants
VariantCodes == {Discriminant[c] : c \in SettingCategory}

\* a is a tuple FIPSCode::new accepts through its typed signature: a valid
\* state, a SettingCategory variant, every number within its field
ValidTuple(a) ==
    /\ a # NoArgs
    /\ a[1] \in USStateCodes
    /\ a[2] <= 1023
    /\ a[3] <= 1048575
    /\ a[4] \in VariantCodes
    /\ a[5] <= 16383
    /\ a[6] <= 1023

\* a names a value some field of the code cannot hold
OutOfCapacity(a) ==
    \/ a[1] > 63
    \/ a[1] \notin USStateCodes
    \/ a[2] > 1023
    \/ a[3] > 1048575
    \/ a[4] > 15
    \/ a[5] > 16383
    \/ a[6] > 1023

\* the lexicographic comparison of two tuples of numbers of equal length
RECURSIVE LexCmp(_, _)
LexCmp(s, t) ==
    IF s = <<>> THEN "Equal"
    ELSE IF Head(s) < Head(t) THEN "Less"
    ELSE IF Head(s) > Head(t) THEN "Greater"
    ELSE LexCmp(Tail(s), Tail(t))

\* C1: packing and expanding are inverse: from_fips_code(new(tuple)) returns
\* exactly the tuple, for every valid tuple with any SettingCategory variant,
\* and to_fips_code gives back the code that was expanded.
C1_RoundTrip ==
    (ret.op = "expand" /\ nset = 0 /\ ValidTuple(args)) =>
        /\ ret.outcome.kind = "value"
        /\ ret.outcome.val =
              [state |-> args[1], county |-> args[2], tract |-> args[3],
               category |-> CHOOSE c \in SettingCategory : Discriminant[c] = args[4],
               id |-> args[5], data |-> args[6]]
        /\ ret.repacked = Ok(code.val)

\* C2: the packed value of a FIPSCode is never zero, after new and the with_*
\* constructors and after any sequence of set_data calls.
C2_NeverZero == code.some => code.val # ZeroU64

\* a code whose only non-zero field is the state, after set_data(0)
C2_Witness ==
    /\ code.some
    /\ ret.op = "set_data" /\ ret.outcome = "ok" /\ ret.value = 0
    /\ nset = 2
    /\ Fields(code.val) = <<args[1], 0, 0, 0, 0, 0>>

\* C3: the ordering of two codes is the lexicographic ordering of their
\* tuples (state, county, tract, category, id, data), and compare_non_data
\* is the lexicographic ordering of (state, county, tract, category, id).
C3_OrderIsLexicographic ==
    ret.op = "compare" =>
        LET a == Fields(code.val)
            b == Fields(ret.other)
        IN  /\ ret.cmp = LexCmp(a, b)
            /\ ret.non_data = LexCmp(SubSeq(a, 1, 5), SubSeq(b, 1, 5))

\* a smaller state decides against a larger county, tract, id and data
C3_Witness ==
    /\ ret.op = "compare" /\ ret.cmp = "Less" /\ ret.non_data = "Less"
    /\ state_code(code.val) < state_code(ret.other)
    /\ county_code(code.val) > county_code(ret.other)
    /\ census_tract_code(code.val) > census_tract_code(ret.other)
    /\ id(code.val) > id(ret.other)
    /\ data(code.val) > data(ret.other)

\* the two codes agree on every field but data
DifferOnlyInData(a, b) ==
    /\ data(a) # data(b)
    /\ SubSeq(Fields(a), 1, 5) = SubSeq(Fields(b), 1, 5)

\* C4: two codes that differ only in data are Equal for compare_non_data and
\* not Equal for the natural ordering, which is Greater exactly when the
\* first code has the larger data.
C4_DataOnlyDifference ==
    (ret.op = "compare" /\ DifferOnlyInData(code.val, ret.other)) =>
        /\ ret.non_data = "Equal"
        /\ ret.cmp # "Equal"
        /\ (ret.cmp = "Greater") <=> (data(code.val) > data(ret.other))

C4_Witness ==
    /\ ret.op = "compare"
    /\ DifferOnlyInData(code.val, ret.other)
    /\ data(code.val) = 511 /\ data(ret.other) = 0
    /\ ret.cmp = "Greater" /\ ret.non_data = "Equal"

\* C5: set_data(v) with v <= 1023 makes data() return v, leaves the five
\* other accessors as they were, and the code before and the code after are
\* Equal for compare_non_data.
C5_SetDataFrame ==
    (ret.op = "set_data" /\ ret.value <= 1023) =>
        /\ ret.outcome = "ok"
        /\ data(code.val) = ret.value
        /\ SubSeq(Fields(code.val), 1, 5) = SubSeq(Fields(ret.before), 1, 5)
        /\ compare_non_data(ret.before, code.val) = "Equal"

\* set_data(0) on a code whose data and id fields are full
C5_Witness ==
    /\ ret.op = "set_data" /\ ret.outcome = "ok" /\ ret.value = 0
    /\ data(ret.before) = 1023
    /\ id(code.val) = 16383
    /\ data(code.val) = 0

\* C6: no field write truncates or wraps: new panics, and yields no code, on
\* every tuple with a value out of capacity or an invalid state; set_data(v)
\* with v > 1023 panics and leaves the code as it was; a code that is
\* produced reads back exactly the values supplied.
C6_NoSilentTruncation ==
    /\ (ret.op = "new" /\ OutOfCapacity(args)) =>
            (ret.outcome = "panic" /\ code = None)
    /\ (ret.op = "new" /\ ret.outcome = "ok") => Fields(code.val) = args
    /\ (ret.op = "set_data" /\ ret.value > 1023) =>
            (ret.outcome = "panic" /\ code.val = ret.before)
    /\ (ret.op = "set_data" /\ ret.outcome = "ok") => data(code.val) = ret.value

\* new on a tuple whose only fault is a county of 1024
C6_Witness ==
    /\ ret.op = "new" /\ ret.outcome = "panic" /\ code = None
    /\ args[2] = 1024
    /\ ~OutOfCapacity(<<args[1], 0, args[3], args[4], args[5], args[6]>>)

\* C7: SettingCategory::decode is the exact inverse of encode: decode(v) is
\* Some(c) exactly for the variant c with encode(c) = v, and None for every
\* other v.
C7_DecodeInvertsEncode ==
    ret.op = "decode" =>
        ret.outcome =
            IF \E c \in SettingCategory : SettingCategory_encode(c) = ret.value
            THEN Some(CHOOSE c \in SettingCategory : SettingCategory_encode(c) = ret.value)
            ELSE None

\* C8: the accessors are total on validly constructed codes: the decode
\* inside state() and category() never yields None for a code built by new
\* from a valid state and a SettingCategory variant, whatever set_data does.
C8_AccessorsTotal ==
    (code.some /\ ValidTuple(args)) =>
        /\ USState_decode(state_code(code.val)).some
        /\ SettingCategory_decode(category_code(code.val)).some

(***************************************************************************)
(* The field parsers, each called once on a text                           *)
(***************************************************************************)
\* the text of a run of decimal digits
D(ns) == [k \in 1..Len(ns) |-> DigitChars[ns[k] + 1]]

\* digit runs shorter than, as long as and longer than every field, at and
\* around the capacities 1023, 2047 and 16383
DigitRuns ==
    {D(<<>>), D(<<1, 2>>), D(<<0, 0, 0>>), D(<<1, 2, 3>>), D(<<9, 9, 9>>),
     D(<<0, 0, 0, 1>>), D(<<1, 0, 2, 3>>), D(<<1, 0, 2, 4>>), D(<<1, 2, 3, 4>>),
     D(<<1, 6, 3, 8>>), D(<<2, 0, 4, 7>>), D(<<2, 0, 4, 8>>), D(<<9, 9, 9, 9>>),
     D(<<0, 0, 0, 0, 0>>), D(<<1, 2, 3, 4, 5>>), D(<<1, 6, 3, 8, 3>>),
     D(<<1, 6, 3, 8, 4>>), D(<<1, 9, 8, 7, 6>>), D(<<9, 9, 9, 9, 9>>),
     D(<<0, 1, 0, 9, 0, 0>>), D(<<9, 9, 0, 1, 0, 1>>), D(<<9, 9, 9, 9, 9, 9>>)}

\* what may stand before the digits
Markers == {<<>>, XPRVX, <<"x">>, <<"x", "p", "r", "v">>}

\* what may follow the digits
Tails ==
    {<<>>, <<"a", "b", "c">>, <<"3", "a", "b", "c">>, <<"@", "#", "$", "%">>,
     <<"x">>, <<"e", "n", "d">>}

ParserInputs == {m \o r \o t : m \in Markers, r \in DigitRuns, t \in Tails}

\* the state after parser op returned res on the text s
Parsed(op, s, res) ==
    /\ input' = s
    /\ ret' = [op |-> op, res |-> res]
    /\ UNCHANGED <<code, args, nset, reader, store>>

ParseCountyCode ==
    /\ ret.op = "init"
    /\ \E s \in ParserInputs : Parsed("parse_county_code", s, parse_county_code(s))

ParseTractCode ==
    /\ ret.op = "init"
    /\ \E s \in ParserInputs : Parsed("parse_tract_code", s, parse_tract_code(s))

ParseHomeId ==
    /\ ret.op = "init"
    /\ \E s \in ParserInputs : Parsed("parse_home_id", s, parse_home_id(s))

ParsePrivateSchoolId ==
    /\ ret.op = "init"
    /\ \E s \in ParserInputs :
        Parsed("parse_private_school_id", s, parse_private_school_id(s))

ParsePublicSchoolId ==
    /\ ret.op = "init"
    /\ \E s \in ParserInputs :
        Parsed("parse_public_school_id", s, parse_public_school_id(s))

ParseWorkplaceId ==
    /\ ret.op = "init"
    /\ \E s \in ParserInputs : Parsed("parse_workplace_id", s, parse_workplace_id(s))

\* parse_private_school_id on a text and on the same text behind the marker
ParsePrivateSchoolIdTwice ==
    /\ ret.op = "init"
    /\ \E s \in ParserInputs :
        /\ input' = s
        /\ ret' = [op |-> "parse_private_school_id_twice",
                   res |-> parse_private_school_id(s),
                   marked |-> parse_private_school_id(XPRVX \o s)]
        /\ UNCHANGED <<code, args, nset, reader, store>>

ParserNext ==
    \/ ParsePrivateSchoolIdTwice
    \/ ParseCountyCode
    \/ ParseTractCode
    \/ ParseHomeId
    \/ ParsePrivateSchoolId
    \/ ParsePublicSchoolId
    \/ ParseWorkplaceId

ParserSpec == Init /\ [][ParserNext]_vars

(***************************************************************************)
(* Properties of the field parsers                                         *)
(***************************************************************************)
\* the digit count and bit width each field parser is declared with
FieldShape ==
    [parse_county_code       |-> <<3, 10>>,
     parse_tract_code        |-> <<6, 20>>,
     parse_home_id           |-> <<4, 14>>,
     parse_public_school_id  |-> <<3, 10>>,
     parse_private_school_id |-> <<4, 11>>,
     parse_workplace_id      |-> <<5, 14>>]

\* the last call was a field parser
FieldParserRan == ret.op \in DOMAIN FieldShape

DigitCount == FieldShape[ret.op][1]

Capacity == 2^(FieldShape[ret.op][2]) - 1

\* the text begins with DigitCount decimal digits
BeginsWithDigits ==
    /\ Len(input) >= DigitCount
    /\ \A k \in 1..DigitCount : IsDigit(input[k])

\* the number those digits denote
LeadingValue == DecimalValue(SubSeq(input, 1, DigitCount))

\* n written in decimal with exactly d digits
RECURSIVE ZeroPadded(_, _)
ZeroPadded(n, d) ==
    IF d = 0 THEN <<>>
    ELSE Append(ZeroPadded(n \div 10, d - 1), DigitChars[(n % 10) + 1])

\* C9: a field parser consumes exactly its digit_count leading characters:
\* on a text whose first digit_count characters are digits of a value within
\* 2^bit_width - 1 it succeeds with that value, and the remainder is the text
\* minus exactly those characters, even when more digits follow.
C9_FixedWidthConsumption ==
    (FieldParserRan /\ BeginsWithDigits /\ LeadingValue <= Capacity) =>
        /\ ret.res.ok
        /\ ret.res.value = LeadingValue
        /\ ZeroPadded(ret.res.value, DigitCount) = SubSeq(input, 1, DigitCount)
        /\ ret.res.rest = SubSeq(input, DigitCount + 1, Len(input))
        /\ SubSeq(input, 1, DigitCount) \o ret.res.rest = input

\* home-id on "16383abc" gives 1638 and leaves "3abc"
C9_Witness ==
    /\ ret.op = "parse_home_id"
    /\ input = D(<<1, 6, 3, 8, 3>>) \o <<"a", "b", "c">>
    /\ ret.res = ParseOk(<<"3", "a", "b", "c">>, 1638)

\* C10: when the digit_count leading digits denote more than
\* 2^bit_width - 1 the parser fails with ValueExceedsCapacity carrying the
\* parsed value and the capacity, and the error carries the whole text; the
\* value 2^bit_width - 1 itself succeeds.
C10_ValueExceedsCapacity ==
    /\ (FieldParserRan /\ BeginsWithDigits /\ LeadingValue > Capacity) =>
            ret.res = ParseErr(input, ValueExceedsCapacity(LeadingValue, Capacity))
    /\ (FieldParserRan /\ BeginsWithDigits /\ LeadingValue = Capacity) =>
            (ret.res.ok /\ ret.res.value = Capacity)

\* workplace-id on "19876@#$%" fails with {value 19876, capacity 16383}
C10_Witness ==
    /\ ret.op = "parse_workplace_id"
    /\ input = D(<<1, 9, 8, 7, 6>>) \o <<"@", "#", "$", "%">>
    /\ ret.res = ParseErr(input, ValueExceedsCapacity(19876, 16383))

\* the text a field parser takes its digits from: parse_private_school_id
\* first drops a leading "xprvx"
DigitText ==
    IF ret.op = "parse_private_school_id" /\ StartsWith(input, XPRVX)
    THEN SubSeq(input, 6, Len(input))
    ELSE input

\* the digits are missing: the text does not begin with DigitCount digits
DigitsMissing(text) ==
    \/ Len(text) < DigitCount
    \/ \E k \in 1..DigitCount : ~IsDigit(text[k])

\* C11 as stated: every field parser fails with InvalidLength on every text
\* that does not begin with digit_count decimal digits.
C11_InvalidLengthOnAnyText ==
    (FieldParserRan /\ DigitsMissing(input)) =>
        (~ret.res.ok /\ ret.res.err.kind = "InvalidLength")

\* C11 amended: a field parser fails with InvalidLength (never InvalidDigit,
\* never a success on fewer digits) on every text that does not begin with
\* digit_count decimal digits, where for parse_private_school_id the text is
\* taken after an optional leading "xprvx".
C11_InvalidLength ==
    (FieldParserRan /\ DigitsMissing(DigitText)) =>
        (~ret.res.ok /\ ret.res.err.kind = "InvalidLength")

\* private-school-id on "xprvxabc": no digit after the marker
C11_Witness ==
    /\ ret.op = "parse_private_school_id"
    /\ input = XPRVX \o <<"a", "b", "c">>
    /\ ~ret.res.ok /\ ret.res.err.kind = "InvalidLength"

\* C12: parse_private_school_id gives the same outcome with and without the
\* marker: for a text s that does not itself start with "xprvx", the calls on
\* "xprvx" + s and on s both succeed with the same value and remainder or
\* both fail with the same kind of error.
C12_MarkerIsOptional ==
    (ret.op = "parse_private_school_id_twice" /\ ~StartsWith(input, XPRVX)) =>
        /\ ret.marked.ok = ret.res.ok
        /\ ret.res.ok =>
              /\ ret.marked.value = ret.res.value
              /\ ret.marked.rest = ret.res.rest
        /\ ~ret.res.ok => ret.marked.err.kind = ret.res.err.kind

\* "xprvx0001abc" and "0001abc" both give 1 and leave "abc"
C12_Witness ==
    /\ ret.op = "parse_private_school_id_twice"
    /\ input = D(<<0, 0, 0, 1>>) \o <<"a", "b", "c">>
    /\ ret.res = ParseOk(<<"a", "b", "c">>, 1)
    /\ ret.marked = ret.res

(***************************************************************************)
(* The composite parsers, each called once on a text                       *)
(***************************************************************************)
\* state prefixes: in the table, outside it, beyond six bits, not two digits
StateTexts ==
    {D(<<0, 2>>), D(<<1, 1>>), D(<<2, 4>>), D(<<4, 8>>), D(<<0, 0>>),
     D(<<9, 9>>), <<>>, <<"1", "a">>}

CountyTexts == {D(<<0, 0, 1>>), D(<<0, 3, 1>>), D(<<9, 9, 9>>), <<"1", "2", "x">>}

\* what follows the county: a tract, a marker, a piece of a marker, too few
\* digits
TractTexts ==
    {D(<<0, 1, 0, 9, 0, 0>>), D(<<0, 0, 0, 3, 0, 0>>), D(<<9, 9, 9, 9, 9, 9>>),
     XPRVX, <<"x">>, <<"x", "p", "r", "v">>, D(<<1, 2, 3, 4, 5>>) \o <<"y">>,
     <<>>}

\* ids of three, four and five digits, at and around 2047 and 16383
IdTexts ==
    {D(<<0, 2, 4>>), D(<<1, 7, 3>>), D(<<0, 0, 2, 4>>), D(<<0, 1, 5, 0>>),
     D(<<2, 0, 4, 7>>), D(<<2, 0, 4, 8>>), D(<<9, 9, 9, 9>>),
     D(<<0, 0, 1, 7, 3>>), D(<<1, 6, 3, 8, 3>>), D(<<1, 6, 3, 8, 4>>),
     D(<<1, 9, 8, 7, 6>>), <<"1", "2">>, <<>>}

CompositeTails == {<<>>, <<"a", "b", "c">>, <<"@", "#", "$", "%">>}

CompositeInputs ==
    {s \o c \o t \o i \o e :
        s \in StateTexts, c \in CountyTexts, t \in TractTexts, i \in IdTexts,
        e \in CompositeTails}

ParseFipsHomeId ==
    /\ ret.op = "init"
    /\ \E s \in CompositeInputs :
        Parsed("parse_fips_home_id", s, parse_fips_home_id(s))

ParseFipsSchoolId ==
    /\ ret.op = "init"
    /\ \E s \in CompositeInputs :
        Parsed("parse_fips_school_id", s, parse_fips_school_id(s))

ParseFipsWorkplaceId ==
    /\ ret.op = "init"
    /\ \E s \in CompositeInputs :
        Parsed("parse_fips_workplace_id", s, parse_fips_workplace_id(s))

CompositeNext ==
    \/ ParseFipsHomeId
    \/ ParseFipsSchoolId
    \/ ParseFipsWorkplaceId

CompositeSpec == Init /\ [][CompositeNext]_vars

(***************************************************************************)
(* Properties of the composite parsers                                     *)
(***************************************************************************)
CompositeRan ==
    ret.op \in {"parse_fips_home_id", "parse_fips_school_id",
                "parse_fips_workplace_id"}

AllDigits(s) == \A k \in 1..Len(s) : IsDigit(s[k])

\* the number a stretch of the text denotes
Number(from, to) == DecimalValue(SubSeq(input, from, to))

\* the text from position from on
From(from) == SubSeq(input, from, Len(input))

\* the text begins with n digits of which the first two are a state code
WellFormedPrefix(n) ==
    /\ Len(input) >= n
    /\ AllDigits(SubSeq(input, 1, n))
    /\ Number(1, 2) \in USStateCodes

\* C13: parse_fips_home_id and parse_fips_workplace_id, on state-code ++ 3
\* county digits ++ 6 tract digits ++ k id digits ++ tail (k = 4 for home, 5
\* for workplace, id <= 16383), succeed with remainder tail and a code whose
\* accessors return the parsed state, county, tract and id, whose category
\* is Home (1) respectively Workplace (2) and whose data is 0.
C13_HomeAndWorkplace ==
    \A k \in {4, 5} :
        ( /\ ret.op = (IF k = 4 THEN "parse_fips_home_id"
                                ELSE "parse_fips_workplace_id")
          /\ WellFormedPrefix(11 + k)
          /\ Number(12, 11 + k) <= 16383 ) =>
            /\ ret.res.ok
            /\ ret.res.rest = From(12 + k)
            /\ Fields(ret.res.value) =
                   <<Number(1, 2), Number(3, 5), Number(6, 11),
                     IF k = 4 THEN 1 ELSE 2, Number(12, 11 + k), 0>>

\* "110010109000024" gives state 11, county 1, tract 10900, home id 24
C13_Witness ==
    /\ ret.op = "parse_fips_home_id"
    /\ input = D(<<1, 1, 0, 0, 1, 0, 1, 0, 9, 0, 0, 0, 0, 2, 4>>)
    /\ ret.res.ok
    /\ ret.res.rest = <<>>
    /\ Fields(ret.res.value) = <<11, 1, 10900, 1, 24, 0>>

\* C14: parse_fips_school_id decides the category only from the character
\* that follows state and county.  If it is 'x', a successful result has
\* category PrivateSchool (4), tract 0 and the four-digit id (<= 2047) that
\* follows the marker; otherwise the parser reads six tract digits and three
\* id digits and the result has category PublicSchool (3).  In both cases
\* data is 0, and no text is accepted under both branches.
C14_SchoolBranch ==
    (ret.op = "parse_fips_school_id" /\ WellFormedPrefix(5)) =>
        LET private == Len(input) >= 6 /\ input[6] = "x"
        IN  /\ (private /\ ret.res.ok) =>
                  /\ StartsWith(From(6), XPRVX)
                  /\ Len(input) >= 14 /\ AllDigits(SubSeq(input, 11, 14))
                  /\ Number(11, 14) <= 2047
                  /\ ret.res.rest = From(15)
                  /\ Fields(ret.res.value) =
                         <<Number(1, 2), Number(3, 5), 0, 4, Number(11, 14), 0>>
            /\ (~private /\ ret.res.ok) =>
                  /\ Len(input) >= 14 /\ AllDigits(SubSeq(input, 6, 14))
                  /\ ret.res.rest = From(15)
                  /\ Fields(ret.res.value) =
                         <<Number(1, 2), Number(3, 5), Number(6, 11), 3,
                           Number(12, 14), 0>>
            /\ (~private /\ WellFormedPrefix(14)) => ret.res.ok
            /\ (StartsWith(From(6), XPRVX) /\ Len(input) >= 14
                /\ AllDigits(SubSeq(input, 11, 14)) /\ Number(11, 14) <= 2047)
                   => ret.res.ok

\* "24031xprvx0150" is the private school 150 of county 31 of state 24
C14_Witness ==
    /\ ret.op = "parse_fips_school_id"
    /\ input = D(<<2, 4, 0, 3, 1>>) \o XPRVX \o D(<<0, 1, 5, 0>>)
    /\ ret.res.ok
    /\ Fields(ret.res.value) = <<24, 31, 0, 4, 150, 0>>

\* C15: the panic branch of the composite parsers is unreachable: when the
\* state-code parser returns a state of the table and every field parser
\* succeeds, county <= 1023, tract <= 1048575, category <= 15, id <= 16383
\* and data = 0 reach the constructor, so it never fails.
C15_NoPanic ==
    CompositeRan =>
        /\ ret.res # ParserBug
        /\ ret.res.ok =>
              LET f == Fields(ret.res.value)
              IN  /\ f[1] \in USStateCodes
                  /\ f[2] <= 1023 /\ f[3] <= 1048575 /\ f[4] <= 15
                  /\ f[5] <= 16383 /\ f[6] = 0

\* a workplace with the largest county, tract and id the digits can denote
C15_Witness ==
    /\ ret.op = "parse_fips_workplace_id"
    /\ ret.res.ok
    /\ Fields(ret.res.value) = <<48, 999, 999999, 2, 16383, 0>>

\* the field parsers a composite parser applies after the state-code parser
FieldOrder ==
    CASE ret.op = "parse_fips_home_id" -> <<"county", "tract", "home">>
      [] ret.op = "parse_fips_workplace_id" -> <<"county", "tract", "workplace">>
      [] ret.op = "parse_fips_school_id" -> <<"county", "school">>

\* one sub-parser applied to a text
RunField(name, s) ==
    CASE name = "state"     -> parse_state_code(s)
      [] name = "county"    -> parse_county_code(s)
      [] name = "tract"     -> parse_tract_code(s)
      [] name = "home"      -> parse_home_id(s)
      [] name = "workplace" -> parse_workplace_id(s)
      [] name = "private"   -> parse_private_school_id(s)
      [] name = "public"    -> parse_public_school_id(s)

\* the first failure when the sub-parsers are applied in order, with the
\* text that sub-parser was given; "school" stands for the branch
RECURSIVE FirstFailure(_, _)
FirstFailure(names, s) ==
    IF names = <<>> THEN None
    ELSE IF Head(names) = "school"
    THEN FirstFailure(IF StartsWith(s, <<"x">>) THEN <<"private">>
                                                ELSE <<"tract", "public">>, s)
    ELSE LET r == RunField(Head(names), s)
         IN  IF r.ok THEN FirstFailure(Tail(names), r.rest)
             ELSE Some([name |-> Head(names), given |-> s, res |-> r])

Failure == FirstFailure(<<"state">> \o FieldOrder, input)

\* C16 as stated: the composite result is the first failing sub-parser's
\* error, and the text it carries is the remainder the earlier sub-parsers
\* left.
C16_CarriesRemainder ==
    (CompositeRan /\ Failure.some) =>
        /\ ret.res = Failure.val.res
        /\ ret.res.rest = Failure.val.given

\* C16 amended: a composite parser short-circuits on the first failing
\* sub-parser: its result is exactly that sub-parser's error (same kind,
\* same fields, same carried text) and no code is constructed; the carried
\* text is the remainder the earlier sub-parsers left, except that the
\* private-school-id parser carries that remainder without a leading "xprvx".
C16_ShortCircuit ==
    (CompositeRan /\ Failure.some) =>
        /\ ~ret.res.ok
        /\ ret.res = Failure.val.res
        /\ ret.res.rest =
               IF Failure.val.name = "private" /\ StartsWith(Failure.val.given, XPRVX)
               THEN SubSeq(Failure.val.given, 6, Len(Failure.val.given))
               ELSE Failure.val.given

\* "1100112345y0024": the tract parser fails on "12345y0024", home id unread
C16_Witness ==
    /\ ret.op = "parse_fips_home_id"
    /\ input = D(<<1, 1, 0, 0, 1, 1, 2, 3, 4, 5>>) \o <<"y">> \o D(<<0, 0, 2, 4>>)
    /\ ret.res = ParseErr(D(<<1, 2, 3, 4, 5>>) \o <<"y">> \o D(<<0, 0, 2, 4>>),
                          InvalidLength(6, 5))

(***************************************************************************)
(* parse_integer, called once on a text                                    *)
(***************************************************************************)
\* 2^64 - 1 in decimal
MaxDecimal == D(<<1, 8, 4, 4, 6, 7, 4, 4, 0, 7, 3, 7, 0, 9, 5, 5, 1, 6, 1, 5>>)

\* digit runs of no, one and many digits, with leading zeros, at and around
\* 2^32, 2^63 and 2^64
IntegerRuns ==
    {<<>>, D(<<0>>), D(<<5>>), D(<<0, 0, 7>>), D(<<1, 2, 3>>),
     D(<<9, 8, 7, 6, 5, 4, 3, 2, 1, 0>>),
     D(<<4, 2, 9, 4, 9, 6, 7, 2, 9, 6>>),
     D(<<9, 2, 2, 3, 3, 7, 2, 0, 3, 6, 8, 5, 4, 7, 7, 5, 8, 0, 7>>),
     D(<<9, 2, 2, 3, 3, 7, 2, 0, 3, 6, 8, 5, 4, 7, 7, 5, 8, 0, 8>>),
     D(<<1, 8, 4, 4, 6, 7, 4, 4, 0, 7, 3, 7, 0, 9, 5, 5, 1, 6, 1, 4>>),
     MaxDecimal,
     D(<<0>>) \o MaxDecimal,
     D(<<1, 8, 4, 4, 6, 7, 4, 4, 0, 7, 3, 7, 0, 9, 5, 5, 1, 6, 1, 6>>),
     D(<<0, 0, 1, 8, 4, 4, 6, 7, 4, 4, 0, 7, 3, 7, 0, 9, 5, 5, 1, 6, 1, 6>>),
     D(<<1, 8, 4, 4, 6, 7, 4, 4, 0, 7, 3, 7, 0, 9, 5, 5, 1, 6, 2, 0>>),
     D(<<2, 8, 4, 4, 6, 7, 4, 4, 0, 7, 3, 7, 0, 9, 5, 5, 1, 6, 1, 5>>),
     D(<<9, 9, 9, 9, 9, 9, 9, 9, 9, 9, 9, 9, 9, 9, 9, 9, 9, 9, 9, 9>>),
     MaxDecimal \o D(<<0>>)}

\* what may follow the digits
IntegerTails ==
    {<<>>, <<"e", "n", "d">>, <<"a", "b", "c">>, <<"x", "y", "z">>,
     <<" ", "1", "2">>, <<"-", "5">>, <<"+", "1">>, <<"@", "#", "$", "%">>}

IntegerInputs == {r \o t : r \in IntegerRuns, t \in IntegerTails}

ParseInteger ==
    /\ ret.op = "init"
    /\ \E s \in IntegerInputs : Parsed("parse_integer", s, parse_integer(s))

IntegerNext == ParseInteger

IntegerSpec == Init /\ [][IntegerNext]_vars

(***************************************************************************)
(* Properties of parse_integer                                             *)
(***************************************************************************)
\* the maximal run of decimal digits the text begins with
LeadingRun == SubSeq(input, 1, LeadingDigits(input, Len(input)))

\* a <= b for digit runs of the same length
RunLeq(a, b) ==
    LET differ == {k \in 1..Len(a) : a[k] # b[k]}
    IN  \/ differ = {}
        \/ DigitValue(a[Lowest(differ)]) < DigitValue(b[Lowest(differ)])

\* the run denotes a value <= 2^64 - 1
FitsU64(run) ==
    LET sig == Significant(run)
    IN  \/ Len(sig) < Len(MaxDecimal)
        \/ Len(sig) = Len(MaxDecimal) /\ RunLeq(sig, MaxDecimal)

\* a decimal number of the size of MaxDecimal is held in groups of four
\* digits, the lowest group first
Places == 1..(Len(MaxDecimal) \div 4)

\* byte j of the word w, as a number
ByteOf(w, j) == Octet(w, 8 * j)

\* the groups from place k on of 256 * n + carry, n given by its groups
RECURSIVE TimesPlus(_, _, _)
TimesPlus(ds, carry, k) ==
    IF k > Len(ds) THEN <<>>
    ELSE LET t == 256 * ds[k] + carry
         IN  <<t % 10000>> \o TimesPlus(ds, t \div 10000, k + 1)

\* the groups of the number that the bytes j..7 of the word w denote
RECURSIVE DecimalFrom(_, _)
DecimalFrom(w, j) ==
    IF j > 7 THEN [k \in Places |-> 0]
    ELSE TimesPlus(DecimalFrom(w, j + 1), ByteOf(w, j), 1)

\* group k of a digit run
GroupOf(sig, k) ==
    LET last  == Len(sig) - 4 * (k - 1)
        first == IF last > 4 THEN last - 3 ELSE 1
    IN  IF last < 1 THEN 0 ELSE DecimalValue(SubSeq(sig, first, last))

\* the word w is the value the digit run denotes
Denotes(w, run) ==
    LET sig == Significant(run)
    IN  DecimalFrom(w, 0) = [k \in Places |-> GroupOf(sig, k)]

\* C17: parse_integer consumes the maximal leading run of decimal digits: on
\* a text that starts with a digit and whose leading run denotes a value
\* <= 2^64 - 1 it succeeds with that value and with the remainder that
\* begins at the first non-digit (empty if there is none).
C17_MaximalRun ==
    (ret.op = "parse_integer" /\ LeadingRun # <<>> /\ FitsU64(LeadingRun)) =>
        /\ ret.res.ok
        /\ Denotes(ret.res.value, LeadingRun)
        /\ ret.res.rest = From(Len(LeadingRun) + 1)

\* "18446744073709551615end" gives u64::MAX and leaves "end"
C17_Witness ==
    /\ ret.op = "parse_integer"
    /\ input = MaxDecimal \o <<"e", "n", "d">>
    /\ ret.res = ParseOk(<<"e", "n", "d">>, MaxU64)

\* C18: parse_integer fails with InvalidLength{expected: 1, found: 0},
\* carrying the whole text, on every text with no leading decimal digit: the
\* empty text and every text whose first character is not a digit.
C18_NoDigits ==
    (ret.op = "parse_integer" /\ (input = <<>> \/ ~IsDigit(input[1]))) =>
        ret.res = ParseErr(input, InvalidLength(1, 0))

\* the empty text
C18_Witness ==
    /\ ret.op = "parse_integer"
    /\ input = <<>>
    /\ ret.res = ParseErr(<<>>, InvalidLength(1, 0))

\* C19 as stated: parse_integer reports InvalidDigit, carrying the first
\* character, on a non-empty text whose first character is not a digit.
C19_InvalidDigitReported ==
    (ret.op = "parse_integer" /\ input # <<>> /\ ~IsDigit(input[1])) =>
        (~ret.res.ok /\ ret.res.err = InvalidDigit(input[1]))

\* C19 amended: parse_integer never reports InvalidDigit; on a non-empty
\* text whose first character is not a decimal digit it reports
\* InvalidLength.
C19_NeverInvalidDigit ==
    ret.op = "parse_integer" =>
        /\ ~ret.res.ok => ret.res.err.kind # "InvalidDigit"
        /\ (input # <<>> /\ ~IsDigit(input[1])) =>
              (~ret.res.ok /\ ret.res.err.kind = "InvalidLength")

\* "@#$%" has no digit and no letter
C19_Witness ==
    /\ ret.op = "parse_integer"
    /\ input = <<"@", "#", "$", "%">>
    /\ ~ret.res.ok
    /\ ret.res.err.kind = "InvalidLength"

\* C20: on a text whose leading digit run denotes a value > 2^64 - 1,
\* parse_integer fails with ValueExceedsCapacity{value: 2^64 - 1,
\* capacity: 2^64 - 1}, carrying the whole text; it never returns a wrapped
\* or truncated value.
C20_Overflow ==
    (ret.op = "parse_integer" /\ LeadingRun # <<>> /\ ~FitsU64(LeadingRun)) =>
        ret.res = ParseErr(input, ValueExceedsCapacity(MaxU64, MaxU64))

\* 2^64 itself, which wraps to 0
C20_Witness ==
    /\ ret.op = "parse_integer"
    /\ input = D(<<1, 8, 4, 4, 6, 7, 4, 4, 0, 7, 3, 7, 0, 9, 5, 5, 1, 6, 1, 6>>)
                   \o <<"e", "n", "d">>
    /\ ~ret.res.ok
    /\ ret.res.err.kind = "ValueExceedsCapacity"

(***************************************************************************)
(* ASPRRecordIterator: opened on a file, or on a list of files, then       *)
(* advanced until it is exhausted or panics                                *)
(***************************************************************************)
\* the most lines a file has, and the most files a list has
MaxLines == 3

MaxFiles == 2

\* columns joined by commas
RECURSIVE JoinColumns(_)
JoinColumns(cols) ==
    IF Len(cols) = 1 THEN cols[1]
    ELSE cols[1] \o <<",">> \o JoinColumns(Tail(cols))

HomeText == D(<<1, 1, 0, 0, 1, 0, 1, 0, 9, 0, 0, 0, 0, 2, 4>>)

PrivateSchoolText == D(<<2, 4, 0, 3, 1>>) \o XPRVX \o D(<<0, 1, 5, 0>>)

PublicSchoolText == D(<<4, 8, 0, 0, 1, 0, 1, 0, 9, 0, 0, 1, 7, 3>>)

WorkText == D(<<0, 2, 1, 3, 0, 0, 0, 0, 3, 0, 0, 1, 6, 3, 8, 3>>)

NotAnId == <<"a", "b", "c">>

HeaderRow ==
    JoinColumns(<<<<"a", "g", "e">>, <<"h", "o", "m", "e">>,
                  <<"s", "c", "h", "o", "o", "l">>, <<"w", "o", "r", "k">>>>)

\* age 34 and all three ids
FullRow == JoinColumns(<<D(<<3, 4>>), HomeText, PrivateSchoolText, WorkText>>)

\* age 7, a home between spaces, no school, a workplace above 16383
HomeOnlyRow ==
    JoinColumns(<<D(<<7>>), <<" ">> \o HomeText \o <<" ">>, <<>>,
                  D(<<0, 2, 1, 3, 0, 0, 0, 0, 3, 0, 0, 1, 6, 3, 8, 4>>)>>)

\* age 255, a public school only, and a fifth column
SchoolOnlyRow ==
    JoinColumns(<<D(<<2, 5, 5>>), NotAnId, PublicSchoolText, NotAnId, NotAnId>>)

\* age 0 and a workplace only
WorkOnlyRow == JoinColumns(<<D(<<0>>), NotAnId, NotAnId, WorkText>>)

\* an age that is not a number, one above 255, and one after a space
BadAgeRow == JoinColumns(<<NotAnId, HomeText, PrivateSchoolText, WorkText>>)

BigAgeRow == JoinColumns(<<D(<<2, 5, 6>>), HomeText, PrivateSchoolText, WorkText>>)

\* two columns only
ShortRow == JoinColumns(<<D(<<3, 4>>), HomeText>>)

EmptyRow == <<>>

FileLines ==
    {LineError} \cup
    {Line(text) : text \in {HeaderRow, BadAgeRow, ShortRow, EmptyRow, FullRow,
                              HomeOnlyRow, SchoolOnlyRow}}

Files ==
    {Missing} \cup
    {FileOf(lines) : lines \in UNION {[1..n -> FileLines] : n \in 0..MaxLines}}

Paths == {"all_states/wy.csv", "AK/Ketchikan AK.csv"}

\* the files a list of files is made of
FileOfTexts(texts) == FileOf([k \in 1..Len(texts) |-> Line(texts[k])])

ListedFiles ==
    {Missing, FileOfTexts(<<>>), FileOfTexts(<<HeaderRow>>),
     FileOfTexts(<<HeaderRow, FullRow>>),
     FileOfTexts(<<FullRow, WorkOnlyRow>>),
     FileOfTexts(<<HeaderRow, HomeOnlyRow, SchoolOnlyRow>>),
     FileOfTexts(<<HeaderRow, ShortRow, FullRow>>),
     FileOfTexts(<<HeaderRow, FullRow, BigAgeRow>>)}

\* lists of files of one directory
FileLists ==
    UNION {[1..n -> {"AK/Ketchikan AK.csv"} \X ListedFiles] : n \in 1..MaxFiles}

FromPath ==
    /\ reader.op = "init"
    /\ \E path \in Paths, file \in Files :
        LET opened == from_path(path, file)
        IN  reader' = [op |-> "from_path", path |-> path, file |-> file,
                       opened |-> opened,
                       line_iter |-> IF opened.ok THEN opened.line_iter ELSE <<>>,
                       out |-> <<>>, done |-> FALSE]
    /\ UNCHANGED <<code, args, nset, ret, input, store>>

\* the caller's view after a call of next: the line read, what was returned,
\* and the records collected so far
AfterNext(rd, r) ==
    [op |-> "next", path |-> rd.path, file |-> rd.file, opened |-> rd.opened,
     line_iter |-> r.lines,
     read |-> IF rd.line_iter = <<>> THEN None ELSE Some(Head(rd.line_iter)),
     last |-> r.outcome,
     out |-> IF r.outcome.kind = "Some" THEN Append(rd.out, r.outcome.record)
             ELSE rd.out,
     done |-> rd.line_iter = <<>> \/ r.outcome = Unwound]

\* ASPRRecordIterator::next, called until the file is exhausted
IteratorNext ==
    /\ reader.op \in {"from_path", "next"}
    /\ reader.opened.ok
    /\ ~reader.done
    /\ reader' = AfterNext(reader, ASPRRecordIterator_next(reader.line_iter))
    /\ UNCHANGED <<code, args, nset, ret, input, store>>

FromFileIterator ==
    /\ reader.op = "init"
    /\ \E files \in FileLists :
        reader' = [op |-> "from_file_iterator", files |-> files,
                   rest |-> files, front |-> None, out |-> <<>>, done |-> FALSE]
    /\ UNCHANGED <<code, args, nset, ret, input, store>>

AfterFlatNext(rd, r) ==
    [op |-> "flat_next", files |-> rd.files, rest |-> r.files,
     front |-> r.front, last |-> r.outcome,
     out |-> IF r.outcome.kind = "Some" THEN Append(rd.out, r.outcome.record)
             ELSE rd.out,
     done |-> r.outcome.kind # "Some"]

\* next on the iterator of from_file_iterator, called until it returns None
FlatMapNext ==
    /\ reader.op \in {"from_file_iterator", "flat_next"}
    /\ ~reader.done
    /\ reader' = AfterFlatNext(reader, FlatMap_next(reader.rest, reader.front))
    /\ UNCHANGED <<code, args, nset, ret, input, store>>

ArchiveNext ==
    \/ FromPath
    \/ IteratorNext
    \/ FromFileIterator
    \/ FlatMapNext

ArchiveSpec == Init /\ [][ArchiveNext]_vars

(***************************************************************************)
(* Properties of the record iterator                                       *)
(***************************************************************************)
\* next has just read a line of text
RowRead == reader.op = "next" /\ reader.read.some /\ reader.read.val.ok

\* the comma-separated columns of the line next has just read
Columns == Split(reader.read.val.text)

\* a column is a number of at most 255, written in digits only
IsAge(col) ==
    /\ col # <<>>
    /\ AllDigits(col)
    /\ Len(Significant(col)) <= 3
    /\ DecimalValue(Significant(col)) <= 255

\* C21: when next reads a row whose age column is not parseable as a small
\* unsigned integer it returns None and does not panic; the same holds for a
\* row with fewer than four columns.
C21_MalformedRowEndsIteration ==
    (RowRead /\ (~IsAge(Columns[1]) \/ Len(Columns) < 4)) =>
        reader.last = EndOfIteration

\* the row next has just read has an age and at least four columns
WellFormed(text) == IsAge(Split(text)[1]) /\ Len(Split(text)) >= 4

\* what a composite parser makes of a column: its code, or nothing
IdOf(r) == IF r.ok THEN Some(r.value) ELSE None

\* C22: the three identifier columns are independent: for a row with a
\* parseable age and four columns a record is always produced, and each of
\* home_id, school_id and work_id is present exactly when its own column
\* parses with the composite parser of its category, whatever the other two
\* columns do.
C22_IndependentColumns ==
    (RowRead /\ WellFormed(reader.read.val.text)) =>
        /\ reader.last.kind = "Some"
        /\ reader.last.record.age = DecimalValue(Columns[1])
        /\ reader.last.record.home_id =
               IdOf(parse_fips_home_id(Trim(Columns[2])))
        /\ reader.last.record.school_id =
               IdOf(parse_fips_school_id(Trim(Columns[3])))
        /\ reader.last.record.work_id =
               IdOf(parse_fips_workplace_id(Trim(Columns[4])))

\* a row with a home between spaces, an empty school column and a workplace
\* id of 16384: the home is there, school and work are not
C22_Witness ==
    /\ RowRead
    /\ reader.read.val.text = HomeOnlyRow
    /\ reader.last.kind = "Some"
    /\ reader.last.record.age = 7
    /\ reader.last.record.home_id.some
    /\ Fields(reader.last.record.home_id.val) = <<11, 1, 10900, 1, 24, 0>>
    /\ reader.last.record.school_id = None
    /\ reader.last.record.work_id = None

\* C23: from_path on a file that opens but holds no line at all returns
\* the EmptyFile error naming that path, not an Io error and not an
\* iterator; on a file that cannot be opened it returns the Io error.
C23_EmptyFile ==
    reader.op = "from_path" =>
        /\ (reader.file.exists /\ reader.file.lines = <<>>) =>
              (~reader.opened.ok /\ reader.opened.err = EmptyFile(reader.path))
        /\ ~reader.file.exists =>
              (~reader.opened.ok /\ reader.opened.err = Io)

C23_Witness ==
    /\ reader.op = "from_path"
    /\ reader.path = "AK/Ketchikan AK.csv"
    /\ reader.file = FileOf(<<>>)
    /\ reader.opened = [ok |-> FALSE, err |-> EmptyFile("AK/Ketchikan AK.csv")]

\* the record of a well-formed row
RecordOf(text) ==
    LET cols == Split(text)
    IN  ASPRPersonRecord(DecimalValue(cols[1]),
                         IdOf(parse_fips_home_id(Trim(cols[2]))),
                         IdOf(parse_fips_school_id(Trim(cols[3]))),
                         IdOf(parse_fips_workplace_id(Trim(cols[4]))))

\* every line after the first is a well-formed row
DataRowsWellFormed(file) ==
    \A k \in 2..Len(file.lines) :
        file.lines[k].ok /\ WellFormed(file.lines[k].text)

\* the records of the lines after the first
RecordsOf(file) ==
    [k \in 1..(Len(file.lines) - 1) |-> RecordOf(file.lines[k + 1].text)]

Openable(file) == file.exists /\ file.lines # <<>>

\* the records of the openable files of a list, in the order of the list
RECURSIVE RecordsOfAll(_)
RecordsOfAll(files) ==
    IF files = <<>> THEN <<>>
    ELSE (IF Openable(Head(files)[2]) THEN RecordsOf(Head(files)[2]) ELSE <<>>)
         \o RecordsOfAll(Tail(files))

\* the records yielded so far are the first of those expected
YieldedOf(expected) ==
    /\ Len(reader.out) <= Len(expected)
    /\ reader.out = SubSeq(expected, 1, Len(reader.out))
    /\ reader.done => reader.out = expected

\* C24: the header row is consumed exactly once, before iteration begins:
\* for a file of n >= 1 lines whose data rows are well formed the iterator
\* of from_path yields exactly the n - 1 records of the lines after the
\* first, in file order, and the first line is never parsed as a record;
\* from_file_iterator over several files yields the concatenation, in the
\* order of the list, of the records of each file that opens, and skips the
\* files for which from_path fails.
C24_HeaderConsumedOnce ==
    /\ ( /\ reader.op \in {"from_path", "next"}
         /\ Openable(reader.file)
         /\ DataRowsWellFormed(reader.file) ) =>
            /\ reader.opened.ok
            /\ YieldedOf(RecordsOf(reader.file))
    /\ ( /\ reader.op \in {"from_file_iterator", "flat_next"}
         /\ \A k \in 1..Len(reader.files) :
               Openable(reader.files[k][2]) =>
                   DataRowsWellFormed(reader.files[k][2]) ) =>
            YieldedOf(RecordsOfAll(reader.files))

\* a missing file, then a header and two rows: two records, then the end
C24_Witness ==
    /\ reader.op = "flat_next"
    /\ reader.done
    /\ Len(reader.files) = 2
    /\ reader.files[1][2] = Missing
    /\ reader.files[2][2] = FileOfTexts(<<HeaderRow, HomeOnlyRow, SchoolOnlyRow>>)
    /\ reader.out = <<RecordOf(HomeOnlyRow), RecordOf(SchoolOnlyRow)>>

(***************************************************************************)
(* Further properties of the field parsers and of the school parser        *)
(***************************************************************************)
\* C25: the county, tract, home-id and public-school-id parsers never fail
\* with ValueExceedsCapacity: every value their digit count can express
\* (999, 999999, 9999, 999) is within their bit capacity (1023, 1048575,
\* 16383, 1023), so they fail with InvalidLength only; only workplace-id
\* and private-school-id can report ValueExceedsCapacity.
C25_CapacityNeverExceeded ==
    FieldParserRan =>
        /\ 10^DigitCount - 1 <= Capacity
               <=> ret.op \notin {"parse_workplace_id", "parse_private_school_id"}
        /\ (ret.op \in {"parse_county_code", "parse_tract_code",
                        "parse_home_id", "parse_public_school_id"}
            /\ ~ret.res.ok) => ret.res.err.kind = "InvalidLength"
        /\ (~ret.res.ok /\ ret.res.err.kind = "ValueExceedsCapacity") =>
               ret.op \in {"parse_workplace_id", "parse_private_school_id"}

\* the largest tract six digits can write
C25_Witness ==
    /\ ret.op = "parse_tract_code"
    /\ input = D(<<9, 9, 9, 9, 9, 9>>)
    /\ ret.res = ParseOk(<<>>, 999999)

\* C27: in parse_fips_school_id, when the remainder after state and county
\* starts with 'x' but not with the whole marker "xprvx", the parse fails
\* with InvalidLength from the private-school-id parser; it never falls
\* back to the public-school branch and never yields a code.
C27_PartialMarker ==
    ( /\ ret.op = "parse_fips_school_id"
      /\ WellFormedPrefix(5)
      /\ StartsWith(From(6), <<"x">>)
      /\ ~StartsWith(From(6), XPRVX) ) =>
        ret.res = ParseErr(From(6), InvalidLength(4, 0))

\* "24031x0150"
C27_Witness ==
    /\ ret.op = "parse_fips_school_id"
    /\ input = D(<<2, 4, 0, 3, 1>>) \o <<"x">> \o D(<<0, 1, 5, 0>>)
    /\ ret.res = ParseErr(<<"x">> \o D(<<0, 1, 5, 0>>), InvalidLength(4, 0))

(***************************************************************************)
(* Threads that call set_aspr_data_path and get_aspr_data_path             *)
(***************************************************************************)
\* the most calls one thread makes
MaxCalls == 2

\* set_aspr_data_path: ASPR_DATA_PATH.write() returns the write guard
SetAcquire(t) ==
    /\ store.pc[t] = "idle"
    /\ store.calls[t] < MaxCalls
    /\ RwLock_write_ready(store.lock)
    /\ \E p \in NewPaths :
        store' = [store EXCEPT !.lock.writer = TRUE,
                               !.pc[t] = "set_0",
                               !.arg[t] = PathBuf(p),
                               !.calls[t] = @ + 1]
    /\ UNCHANGED <<code, args, nset, ret, input, reader>>

\* set_aspr_data_path: `*guard = path` stores one part of the buffer
SetStore(t) ==
    /\ store.pc[t] \in {"set_0", "set_1"}
    /\ LET k == IF store.pc[t] = "set_0" THEN 1 ELSE 2
       IN  store' = [store EXCEPT !.path[k] = store.arg[t][k],
                                  !.pc[t] = IF k = 1 THEN "set_1" ELSE "set_2"]
    /\ UNCHANGED <<code, args, nset, ret, input, reader>>

\* set_aspr_data_path: the write guard is dropped and the call returns
SetRelease(t) ==
    /\ store.pc[t] = "set_2"
    /\ store' = [store EXCEPT !.lock.writer = FALSE,
                              !.pc[t] = "idle",
                              !.committed = store.arg[t][1]]
    /\ UNCHANGED <<code, args, nset, ret, input, reader>>

\* get_aspr_data_path: ASPR_DATA_PATH.read() returns a read guard
GetAcquire(t) ==
    /\ store.pc[t] = "idle"
    /\ store.calls[t] < MaxCalls
    /\ RwLock_read_ready(store.lock)
    /\ store' = [store EXCEPT !.lock.readers = @ \cup {t},
                              !.pc[t] = "get_0",
                              !.seen[t] = store.committed,
                              !.calls[t] = @ + 1]
    /\ UNCHANGED <<code, args, nset, ret, input, reader>>

\* get_aspr_data_path: clone() copies one part of the buffer
GetClone(t) ==
    /\ store.pc[t] \in {"get_0", "get_1"}
    /\ LET k == IF store.pc[t] = "get_0" THEN 1 ELSE 2
       IN  store' = [store EXCEPT !.copy[t][k] = store.path[k],
                                  !.pc[t] = IF k = 1 THEN "get_1" ELSE "get_2"]
    /\ UNCHANGED <<code, args, nset, ret, input, reader>>

\* get_aspr_data_path: the read guard is dropped and the copy is returned
GetRelease(t) ==
    /\ store.pc[t] = "get_2"
    /\ store' = [store EXCEPT !.lock.readers = @ \ {t},
                              !.pc[t] = "idle",
                              !.got[t] = Some([path |-> store.copy[t],
                                               seen |-> store.seen[t],
                                               committed |-> store.committed])]
    /\ UNCHANGED <<code, args, nset, ret, input, reader>>

StoreNext ==
    \E t \in Threads :
        \/ SetAcquire(t)
        \/ SetStore(t)
        \/ SetRelease(t)
        \/ GetAcquire(t)
        \/ GetClone(t)
        \/ GetRelease(t)

StoreSpec == Init /\ [][StoreNext]_vars

(***************************************************************************)
(* Properties of the shared path                                           *)
(***************************************************************************)
Setting == {t \in Threads : store.pc[t] \in {"set_0", "set_1", "set_2"}}

Getting == {t \in Threads : store.pc[t] \in {"get_0", "get_1", "get_2"}}

\* C26: under any interleaving of concurrent set_aspr_data_path and
\* get_aspr_data_path calls, every get returns the default path if no set
\* has completed before it and otherwise the complete path written by the
\* most recently completed set; a get never observes a partially written
\* path, and two sets never interleave their writes.
C26_ReadersSeeCommittedPath ==
    /\ Cardinality(Setting) <= 1
    /\ Setting # {} => Getting = {}
    /\ Setting = {} => store.path = PathBuf(store.committed)
    /\ \A t \in Threads :
          store.got[t].some =>
              LET g == store.got[t].val
              IN  /\ g.path[1] = g.path[2]
                  /\ g.path[1] \in NewPaths \cup {DEFAULT_ASPR_DATA_PATH}
                  /\ g.seen = g.committed
                  /\ g.path = PathBuf(g.committed)

\* one thread has read the default path, another a path that was set, and
\* a third is setting a new one
C26_Witness ==
    /\ \E t \in Threads :
          /\ store.got[t].some
          /\ store.got[t].val.path = PathBuf(DEFAULT_ASPR_DATA_PATH)
    /\ \E t \in Threads :
          /\ store.got[t].some
          /\ store.got[t].val.path = PathBuf("/data/a")
    /\ \E t \in Threads : store.pc[t] = "set_1" /\ store.arg[t] = PathBuf("/data/b")

=============================================================================
